---- MODULE Spec2Model ----
(***************************************************************************)
(* A model of Ishiko::ChildProcessBuilder (src/src/ChildProcessBuilder.cpp) *)
(* and of the ChildProcess handle it returns.  One caller owns one builder; *)
(* the operating system (file system, process table, scheduler) is part of  *)
(* the state.  The platform (#if ISHIKO_OS) is fixed in the initial state.  *)
(***************************************************************************)
EXTENDS Integers, Sequences, FiniteSets, TLC

VARIABLES
    os,         \* "linux" or "windows": the branch of #if ISHIKO_OS the build took
    euid,       \* effective user id of the caller (0 bypasses file permission checks)
    fs,         \* the files a redirection may name: path -> NoFile or [content, writable]
    builder,    \* the ChildProcessBuilder's members
    call,       \* the caller's position inside start() / start(error)
    procs,      \* every process spawned so far, in spawn order
    handles,    \* the ChildProcess objects the caller holds
    lastResult, \* what the last completed start call gave the caller
    started     \* number of start calls made

vars == <<os, euid, fs, builder, call, procs, handles, lastResult, started>>

-----------------------------------------------------------------------------
(* Bounds *)

MaxStarts == 2      \* start calls per behaviour
MaxLive == 2        \* process identifiers the system can hand out at a time
MaxOut == 1         \* bytes a spawned program writes to standard output
MaxArgs == 2        \* arguments of a command line

-----------------------------------------------------------------------------
(* The environment the program runs in *)

NoFile == [exists |-> FALSE, content |-> << >>, writable |-> FALSE]
NoPath == ""            \* std::string().empty(), and "unset" for optional members
NoEnv == << >>          \* m_environment holds no value; <<vars>> when it does
NoImage == "noimage"    \* process image not (yet) replaced
NullPath == "NULL"      \* realpath() returned NULL
NoCode == << >>         \* no exit status recorded; <<n>> once there is one
NoError == "noerror"    \* default-constructed Error
Generic == "generic"    \* ProcessErrorCategory::Value::generic
InvalidId == -1         \* ChildProcess(-1) / INVALID_HANDLE_VALUE

Pids == 1..MaxLive

CallerCwd == "/"
CallerEnviron == {"HOME=/root"}

\* Directories and program files; these never change while the model runs.
Directories == {"/", "/bin", "/w"}
Programs == {"/bin/ok", "/tool", "/w/tool"}     \* regular files with the x bit
PlainFiles == {"/bin/data"}                        \* regular files without it
RelativePaths == {"tool"}
ExecutableNames == {"/bin/ok", "/bin/data", "/missing", "tool"}
ArgumentLists == {<<"-a", "-b">>}
Arguments == {"-a", "-b"}
\* Every argument list of at most MaxArgs arguments.
AllArgumentLists == UNION {[1..n -> Arguments] : n \in 0..MaxArgs}
Environments == {NoEnv, <<{<<"K", "v">>}>>}
WorkingDirectories == {"/w", "/nodir"}
OutputPaths == {"/out", "/nodir/out"}
\* The exit code each program terminates with.
ExitCodeOf(image) == IF image = "/bin/ok" THEN 0 ELSE IF image = "/tool" THEN 7 ELSE 3
OldContent == <<9>>     \* content of a file that exists before the first start

Parent(path) == IF path = "/nodir/out" THEN "/nodir" ELSE "/"

Join(dir, name) == IF dir = "/" THEN "/" \o name ELSE dir \o "/" \o name

\* Path resolution against a working directory.
Resolve(cwd, path) == IF path \in RelativePaths THEN Join(cwd, path) ELSE path

-----------------------------------------------------------------------------
(* File system and library calls, as the code uses them *)

\* Faulty variant of Exists: the check always passes.
ExistsAlways(cwd, path) == TRUE

\* boost::filesystem::exists(path), evaluated in working directory cwd.
Exists(cwd, path) ==
    LET p == Resolve(cwd, path)
    IN  \/ p \in Directories \cup Programs \cup PlainFiles
        \/ p \in OutputPaths /\ fs[p].exists

\* realpath(path, NULL) in working directory cwd: the canonical absolute path,
\* or NULL when the path does not name an existing file.
Realpath(cwd, path) == IF Exists(cwd, path) THEN Resolve(cwd, path) ELSE NullPath

\* chdir(path): the working directory after the call (unchanged on failure).
Chdir(cwd, path) == IF path \in Directories THEN path ELSE cwd

\* Environment::toEnvironmentArray(): one "NAME=value" string per variable.
toEnvironmentArray(env) == {e[1] \o "=" \o e[2] : e \in env}

\* Environment::toEnvironmentBlock(): the same strings, NUL-separated.
toEnvironmentBlock(env) == {e[1] \o "=" \o e[2] : e \in env}

\* exit(n) / WEXITSTATUS: the low eight bits of the status.
ExitStatus(n) == n % 256

\* open(path, O_WRONLY | O_CREAT | O_TRUNC, 0400) by a process with user id uid:
\* [ok, fs].  A new file gets mode 0400; an existing file keeps its mode, and a
\* user other than root needs write permission on it.
Open(files, uid, path) ==
    IF ~files[path].exists
    THEN IF Parent(path) \in Directories
         THEN [ok |-> TRUE,
               fs |-> [files EXCEPT ![path] = [exists |-> TRUE, content |-> << >>,
                                           writable |-> FALSE]]]
         ELSE [ok |-> FALSE, fs |-> files]
    ELSE IF files[path].writable \/ uid = 0
         THEN [ok |-> TRUE, fs |-> [files EXCEPT ![path].content = << >>]]
         ELSE [ok |-> FALSE, fs |-> files]

\* write(fd, &byte, 1) at file offset off (a hole reads as zero bytes).
WriteAt(content, off, byte) ==
    LET n == IF Len(content) > off + 1 THEN Len(content) ELSE off + 1
    IN  [i \in 1..n |-> IF i = off + 1 THEN byte
                        ELSE IF i <= Len(content) THEN content[i] ELSE 0]

-----------------------------------------------------------------------------
(* Error and ThrowIf (Ishiko Errors), as this file uses them *)

\* Fail(category value, error): error is set afterwards.
Fail(error) == IF error = NoError THEN Generic ELSE error

\* ThrowIf(error): throws exactly when error is set.
ThrowIf(error) == error # NoError

-----------------------------------------------------------------------------
(* Processes *)

\* No argument vector yet.
NoArgv == [slots |-> << >>, stray |-> {}]

\* The allocator's lock as fork() copies it into the child: free, or held by
\* a thread of the caller that was inside the allocator and that the child
\* does not have.
HeapLocks == {"free", "held"}

\* The k-th spawned process, right after fork(): a copy of the caller, with
\* the one thread that called fork().
Forked(pid, b, solo, lock) ==
    [pid |-> pid, pc |-> "setup", b |-> b, argv |-> NoArgv, stdout |-> "inherit",
     offset |-> 0, cwd |-> CallerCwd, exe |-> NoPath, image |-> NoImage,
     env |-> CallerEnviron, written |-> << >>, status |-> NoCode, solo |-> solo,
     heapLock |-> lock]

\* Whether process p can allocate: std::vector, std::string, new, strdup and
\* realpath(path, NULL) all take the allocator's lock.
CanAllocate(p) == p.heapLock = "free"

Unreaped == {k \in 1..Len(procs) : procs[k].pc # "reaped"}
Terminated(k) == procs[k].pc \in {"zombie", "reaped"}
\* The identifiers a new process can get (they are interchangeable, so the
\* first process gets 1).
FreePids == IF procs = << >> THEN {1} ELSE Pids \ {procs[k].pid : k \in Unreaped}

\* Whether every earlier process sent to the same file has already terminated.
Solo(path) == \A k \in 1..Len(procs) : procs[k].b.out = path => Terminated(k)

-----------------------------------------------------------------------------
(* The caller's side of start *)

Idle == [pc |-> "idle", kind |-> "none", error |-> NoError, child |-> InvalidId,
         proc |-> 0, before |-> 0]

NoResult == [kind |-> "none", errIn |-> NoError, inner |-> [id |-> InvalidId, error |-> NoError],
             raised |-> FALSE, ret |-> << >>, spawned |-> 0, proc |-> 0,
             leaked |-> {}, badClose |-> FALSE]

\* A ChildProcess constructed from a native identifier.
\* collected: the processes whose exit status the handle has taken so far.
ChildProcess(id, proc, failed) ==
    [id |-> id, code |-> NoCode, waited |-> FALSE, proc |-> proc, failed |-> failed,
     collected |-> {}]

\* Faulty variant of start: ThrowIf is missing.
startIgnoringError(inner) == [raised |-> FALSE, ret |-> <<inner.id>>]

\* start(): what the throwing form makes of the result of the one call of
\* start(error) it performs.
start(inner) ==
    [raised |-> ThrowIf(inner.error),
     ret |-> IF ThrowIf(inner.error) THEN << >> ELSE <<inner.id>>]

\* The caller gets the result of a finished call: start(error) hands back
\* inner as it is, start() passes it through its wrapper.
Return(c, inner, proc, leaked, badClose) ==
    LET outer == IF c.kind = "throw" THEN start(inner)
                 ELSE [raised |-> FALSE, ret |-> <<inner.id>>]
    IN  /\ call' = Idle
        /\ lastResult' = [kind |-> c.kind, errIn |-> c.error, inner |-> inner,
                          raised |-> outer.raised, ret |-> outer.ret,
                          spawned |-> Len(procs') - c.before, proc |-> proc,
                          leaked |-> leaked, badClose |-> badClose]
        /\ handles' = IF outer.ret = << >> THEN handles
                      ELSE Append(handles,
                                  ChildProcess(outer.ret[1], proc, inner.error # NoError))

\* start(error), executable missing: Fail(...); return ChildProcess(-1).
ExistsFailed(error) == [id |-> InvalidId, error |-> Fail(error)]

\* Faulty variant of ForkFailed: the Fail call is missing.
ForkFailedSilently(child, error) == [id |-> child, error |-> error]

\* start(error), fork() returned -1: Fail(...); return ChildProcess(child).
ForkFailed(child, error) == [id |-> child, error |-> Fail(error)]

\* Faulty variant of ParentBranch: the pid is dropped.
ParentBranchNoProcess(child, error) == [id |-> InvalidId, error |-> error]

\* start(error), fork() returned the child's pid: return ChildProcess(child).
ParentBranch(child, error) == [id |-> child, error |-> error]

CanStart == /\ call.pc = "idle"
            /\ started < MaxStarts

\* Faulty variant of StartLinux: the redirection file is opened in the caller,
\* before the existence check.
StartLinuxOpenFirst(kind, errIn) ==
    /\ os = "linux"
    /\ CanStart
    /\ started' = started + 1
    /\ fs' = IF builder.out # NoPath THEN Open(fs, euid, builder.out).fs ELSE fs
    /\ UNCHANGED <<os, euid, builder, procs>>
    /\ IF ~Exists(CallerCwd, builder.executable)
       THEN Return([Idle EXCEPT !.kind = kind, !.error = errIn, !.before = Len(procs)],
                   ExistsFailed(errIn), 0, {}, FALSE)
       ELSE /\ call' = [Idle EXCEPT !.pc = "fork", !.kind = kind, !.error = errIn,
                                    !.before = Len(procs)]
            /\ UNCHANGED <<lastResult, handles>>

\* Entry of a start call on Linux, up to the existence check.
StartLinux(kind, errIn) ==
    /\ os = "linux"
    /\ CanStart
    /\ started' = started + 1
    /\ UNCHANGED <<os, euid, fs, builder, procs>>
    /\ IF ~Exists(CallerCwd, builder.executable)
       THEN Return([Idle EXCEPT !.kind = kind, !.error = errIn, !.before = Len(procs)],
                   ExistsFailed(errIn), 0, {}, FALSE)
       ELSE /\ call' = [Idle EXCEPT !.pc = "fork", !.kind = kind, !.error = errIn,
                                    !.before = Len(procs)]
            /\ UNCHANGED <<lastResult, handles>>

\* pid_t child = fork(), and the branch taken on child == -1.
Fork ==
    /\ call.pc = "fork"
    /\ \/ /\ UNCHANGED procs
          /\ Return(call, ForkFailed(InvalidId, call.error), 0, {}, FALSE)
       \/ \E pid \in FreePids, lock \in HeapLocks :
            /\ procs' = Append(procs, Forked(pid, builder, Solo(builder.out), lock))
            /\ call' = [call EXCEPT !.pc = "ret", !.child = pid, !.proc = Len(procs) + 1]
            /\ UNCHANGED <<lastResult, handles>>
    /\ UNCHANGED <<os, euid, fs, builder, started>>

\* Faulty variant of ParentReturn: the caller waits for the child to end.
ParentReturnAfterChild ==
    /\ call.pc = "ret"
    /\ procs[call.proc].pc \in {"zombie", "reaped"}
    /\ UNCHANGED <<os, euid, fs, builder, procs, started>>
    /\ Return(call, [id |-> call.child, error |-> call.error], call.proc, {}, FALSE)

\* Faulty variant of ParentReturn: the redirection is used up by the start.
ParentReturnClearing ==
    /\ call.pc = "ret"
    /\ builder' = [builder EXCEPT !.out = NoPath]
    /\ UNCHANGED <<os, euid, fs, procs, started>>
    /\ Return(call, ParentBranch(call.child, call.error), call.proc, {}, FALSE)

\* The branch child > 0: the caller returns the handle.
ParentReturn ==
    /\ call.pc = "ret"
    /\ UNCHANGED <<os, euid, fs, builder, procs, started>>
    /\ Return(call, ParentBranch(call.child, call.error), call.proc, {}, FALSE)

-----------------------------------------------------------------------------
(* The forked child (the branch child == 0) *)

Null == "nullptr"

Unwritten == "unwritten"

\* new char*[size]: slots 0..size-1 (slot i is slots[i + 1]), none written.
\* stray collects the indices written outside the array.
NewArray(size) == [slots |-> [i \in 1..size |-> Unwritten], stray |-> {}]

\* argv[i] = v.
StoreSlot(a, i, v) ==
    IF i + 1 \in DOMAIN a.slots THEN [a EXCEPT !.slots[i + 1] = v]
    ELSE [a EXCEPT !.stray = @ \cup {i}]

\* for (const std::string& argument : arguments) { argv[i] = strdup(...); ++i; }
RECURSIVE StoreArguments(_, _, _)
StoreArguments(a, arguments, i) ==
    IF arguments = << >> THEN a
    ELSE StoreArguments(StoreSlot(a, i, Head(arguments)), Tail(arguments), i + 1)

\* Faulty variant of BuildArgv: no slot is allocated for the terminator.
BuildArgvShort(b) ==
    LET arguments == b.arguments
        first == StoreSlot(NewArray(Len(arguments) + 1), 0, b.executable)
        filled == StoreArguments(first, arguments, 1)
    IN  StoreSlot(filled, Len(arguments) + 1, Null)

\* char** argv: the executable as the command line has it, the arguments,
\* nullptr.
BuildArgv(b) ==
    LET arguments == b.arguments
        first == StoreSlot(NewArray(Len(arguments) + 2), 0, b.executable)
        filled == StoreArguments(first, arguments, 1)
    IN  StoreSlot(filled, Len(arguments) + 1, Null)

\* Faulty variant of ExecEnvironment: execv in both branches.
ExecEnvironmentInherited(b, environ) == environ

\* The environment the exec call hands to the new image: execve passes the
\* configured array, execv leaves environ as inherited.
ExecEnvironment(b, environ) ==
    IF b.environment # NoEnv THEN toEnvironmentArray(b.environment[1]) ELSE environ

\* Whether the exec call can replace the image with the file at path.
Executable(path) == path \in Programs

\* argv, built from copies on the heap, then open() and dup2() when a
\* redirection is set.
ChildSetup(k) ==
    /\ procs[k].pc = "setup"
    /\ CanAllocate(procs[k])
    /\ LET p == procs[k]
           r == IF p.b.out # NoPath THEN Open(fs, euid, p.b.out)
                ELSE [ok |-> FALSE, fs |-> fs]
       IN  /\ fs' = r.fs
           /\ procs' = [procs EXCEPT ![k] =
                  [p EXCEPT !.pc = "resolve", !.argv = BuildArgv(p.b),
                            !.stdout = IF r.ok THEN p.b.out ELSE p.stdout]]
    /\ UNCHANGED <<os, euid, builder, call, handles, lastResult, started>>

\* Faulty variant of ChildResolve: chdir() first, realpath() in the new directory.
ChildResolveAfterChdir(k) ==
    /\ procs[k].pc = "resolve"
    /\ LET p == procs[k]
           dir == IF p.b.cwd # NoPath THEN Chdir(p.cwd, p.b.cwd) ELSE p.cwd
       IN  procs' = [procs EXCEPT ![k] =
               [p EXCEPT !.pc = "exec", !.cwd = dir,
                         !.exe = Realpath(dir, p.b.executable)]]
    /\ UNCHANGED <<os, euid, fs, builder, call, handles, lastResult, started>>

\* realpath() in the directory the child inherited, then chdir() when a
\* working directory is set.
ChildResolve(k) ==
    /\ procs[k].pc = "resolve"
    /\ CanAllocate(procs[k])
    /\ LET p == procs[k]
       IN  procs' = [procs EXCEPT ![k] =
               [p EXCEPT !.pc = "exec",
                         !.exe = Realpath(p.cwd, p.b.executable),
                         !.cwd = IF p.b.cwd # NoPath THEN Chdir(p.cwd, p.b.cwd)
                                 ELSE p.cwd]]
    /\ UNCHANGED <<os, euid, fs, builder, call, handles, lastResult, started>>

\* execve() / execv(): on success the process runs the new image.
ChildExec(k) ==
    /\ procs[k].pc = "exec"
    /\ LET p == procs[k]
       IN  procs' = [procs EXCEPT ![k] =
               IF Executable(p.exe)
               THEN [p EXCEPT !.pc = "running", !.image = p.exe,
                              !.env = ExecEnvironment(p.b, p.env)]
               ELSE [p EXCEPT !.pc = "failed"]]
    /\ UNCHANGED <<os, euid, fs, builder, call, handles, lastResult, started>>

\* The exec call returned: free(executable_path); exit(-1).
ChildExitCode == -1

\* Faulty variant of ChildExit: exit(0).
ChildExitSuccess(k) ==
    /\ procs[k].pc = "failed"
    /\ procs' = [procs EXCEPT ![k] = [procs[k] EXCEPT !.pc = "zombie", !.status = <<0>>]]
    /\ UNCHANGED <<os, euid, fs, builder, call, handles, lastResult, started>>

\* Faulty variant of ChildExit: exit() is missing, the child leaves start.
ChildExitReturns(k) ==
    /\ procs[k].pc = "failed"
    /\ procs' = [procs EXCEPT ![k] = [procs[k] EXCEPT !.pc = "returned"]]
    /\ UNCHANGED <<os, euid, fs, builder, call, handles, lastResult, started>>

ChildExit(k) ==
    /\ procs[k].pc = "failed"
    /\ procs' = [procs EXCEPT ![k] =
           [procs[k] EXCEPT !.pc = "zombie", !.status = <<ExitStatus(ChildExitCode)>>]]
    /\ UNCHANGED <<os, euid, fs, builder, call, handles, lastResult, started>>

-----------------------------------------------------------------------------
(* The spawned program *)

\* The program writes one byte to its standard output; the k-th spawned
\* program writes bytes of value k.
ProgWrite(k) ==
    /\ procs[k].pc = "running"
    /\ Len(procs[k].written) < MaxOut
    /\ LET p == procs[k]
       IN  /\ procs' = [procs EXCEPT ![k] =
                  [p EXCEPT !.written = Append(p.written, k), !.offset = p.offset + 1]]
           /\ fs' = IF p.stdout \in OutputPaths
                    THEN [fs EXCEPT ![p.stdout].content =
                             IF os = "linux" THEN WriteAt(@, p.offset, k)
                             ELSE Append(@, k)]
                    ELSE fs
    /\ UNCHANGED <<os, euid, builder, call, handles, lastResult, started>>

\* The program terminates with its exit code.
ProgExit(k) ==
    /\ procs[k].pc = "running"
    /\ procs' = [procs EXCEPT ![k] =
           [procs[k] EXCEPT !.pc = "zombie",
                            !.status = <<IF os = "linux" THEN ExitStatus(ExitCodeOf(procs[k].image))
                                           ELSE ExitCodeOf(procs[k].image)>>]]
    /\ UNCHANGED <<os, euid, fs, builder, call, handles, lastResult, started>>

-----------------------------------------------------------------------------
(* The Windows branch of start(error) *)

\* CreateFileA(path, FILE_APPEND_DATA, ..., OPEN_ALWAYS, ...): [ok, fs].
\* An existing file is opened as it is; a missing one is created empty.
createInheritableFile(files, path) ==
    IF ~files[path].exists
    THEN IF Parent(path) \in Directories
         THEN [ok |-> TRUE,
               fs |-> [files EXCEPT ![path] = [exists |-> TRUE, content |-> << >>,
                                           writable |-> TRUE]]]
         ELSE [ok |-> FALSE, fs |-> files]
    ELSE [ok |-> files[path].writable, fs |-> files]

\* The lpEnvironment argument: the block when an environment is set, else
\* NULL, which makes the new process inherit the caller's.
WindowsEnvironment(b, environ) ==
    IF b.environment # NoEnv THEN toEnvironmentBlock(b.environment[1]) ELSE environ

\* Whether CreateProcessA can start the command line in the working directory.
CanCreateProcess(b) ==
    /\ Executable(Resolve(CallerCwd, b.executable))
    /\ b.cwd # NoPath => b.cwd \in Directories

\* The handles start opened and has not closed when it returns.
OpenAfterStart(opened, redirect) == IF redirect THEN opened \ {"outputFile"} ELSE opened

StartWindows(kind, errIn) ==
    /\ os = "windows"
    /\ CanStart
    /\ started' = started + 1
    /\ LET redirect == builder.out # NoPath
           f == IF redirect THEN createInheritableFile(fs, builder.out)
                ELSE [ok |-> FALSE, fs |-> fs]
           opened == IF f.ok THEN {"outputFile"} ELSE {}
           c == [Idle EXCEPT !.kind = kind, !.error = errIn, !.before = Len(procs)]
           leaked == OpenAfterStart(opened, redirect)
           badClose == redirect /\ ~f.ok
       IN  /\ fs' = f.fs
           /\ \/ /\ UNCHANGED procs
                 /\ Return(c, [id |-> InvalidId, error |-> Fail(errIn)], 0, leaked, badClose)
              \/ /\ CanCreateProcess(builder)
                 /\ \E pid \in FreePids :
                      /\ procs' = Append(procs,
                             [Forked(pid, builder, Solo(builder.out), "free") EXCEPT
                                 !.pc = "running",
                                 !.argv = BuildArgv(builder),
                                 !.stdout = IF ~redirect THEN "inherit"
                                            ELSE IF f.ok THEN builder.out ELSE "none",
                                 !.cwd = IF builder.cwd # NoPath THEN builder.cwd
                                         ELSE CallerCwd,
                                 !.exe = Resolve(CallerCwd, builder.executable),
                                 !.image = Resolve(CallerCwd, builder.executable),
                                 !.env = WindowsEnvironment(builder, CallerEnviron)])
                      /\ Return(c, [id |-> pid, error |-> errIn], Len(procs) + 1,
                                leaked, badClose)
    /\ UNCHANGED <<os, euid, builder>>

-----------------------------------------------------------------------------
(* The builder's setters *)

\* The caller configures the builder before it starts it for the first time.
Configuring == call.pc = "idle" /\ started = 0

redirectStandardOutputToFile(path) ==
    /\ Configuring
    /\ builder.out # path
    /\ builder' = [builder EXCEPT !.out = path]
    /\ UNCHANGED <<os, euid, fs, call, procs, handles, lastResult, started>>

setCurrentWorkingDirectory(path) ==
    /\ Configuring
    /\ builder.cwd # path
    /\ builder' = [builder EXCEPT !.cwd = path]
    /\ UNCHANGED <<os, euid, fs, call, procs, handles, lastResult, started>>

-----------------------------------------------------------------------------
(* ChildProcess *)

\* ChildProcess(): the "no process" handle.  One is enough: the caller
\* constructs it before any handle a start returns.
DefaultConstruct ==
    /\ Configuring
    /\ handles = << >>
    /\ handles' = Append(handles, ChildProcess(InvalidId, 0, TRUE))
    /\ UNCHANGED <<os, euid, fs, builder, call, procs, lastResult, started>>

\* Faulty variant of WaitTarget: an identifier of -1 stands for any child.
WaitTargetAnyChild(h) ==
    IF h.id = InvalidId THEN Unreaped ELSE {k \in Unreaped : procs[k].pid = h.id}

\* The processes a wait on handle h can collect: the one it identifies.
WaitTarget(h) == {k \in Unreaped : procs[k].pid = h.id}

\* Faulty variant of waitForExit: a handle that has a status waits again.
waitForExitAgain(i) ==
    /\ call.pc = "idle"
    /\ LET h == handles[i]
       IN  IF WaitTarget(h) = {}
           THEN /\ ~h.waited
                /\ handles' = [handles EXCEPT ![i].waited = TRUE]
                /\ UNCHANGED procs
           ELSE \E k \in WaitTarget(h) :
                  /\ procs[k].pc = "zombie"
                  /\ handles' = [handles EXCEPT ![i].waited = TRUE,
                                                ![i].code = procs[k].status,
                                                ![i].collected = @ \cup {k}]
                  /\ procs' = [procs EXCEPT ![k].pc = "reaped"]
    /\ UNCHANGED <<os, euid, fs, builder, call, lastResult, started>>

\* waitForExit(): blocks until the process of the handle has terminated, then
\* records its exit status; on a handle without a process it fails and
\* records nothing; on a handle that has a status already it changes nothing.
waitForExit(i) ==
    /\ call.pc = "idle"
    /\ handles[i].code = NoCode
    /\ LET h == handles[i]
       IN  IF WaitTarget(h) = {}
           THEN /\ ~h.waited
                /\ handles' = [handles EXCEPT ![i].waited = TRUE]
                /\ UNCHANGED procs
           ELSE \E k \in WaitTarget(h) :
                  /\ procs[k].pc = "zombie"
                  /\ handles' = [handles EXCEPT ![i].waited = TRUE,
                                                ![i].code = procs[k].status,
                                                ![i].collected = @ \cup {k}]
                  /\ procs' = [procs EXCEPT ![k].pc = "reaped"]
    /\ UNCHANGED <<os, euid, fs, builder, call, lastResult, started>>

\* exitCode(): the recorded status; fails when none was recorded.
exitCode(h) == IF h.code = NoCode THEN [failed |-> TRUE, value |-> 0]
               ELSE [failed |-> FALSE, value |-> h.code[1]]

-----------------------------------------------------------------------------
(* Specifications *)

ExistingOut == [exists |-> TRUE, content |-> OldContent, writable |-> TRUE]

Init ==
    /\ os \in {"linux", "windows"}
    /\ euid \in IF os = "linux" THEN {0, 1000} ELSE {1000}
    /\ fs \in [OutputPaths -> {NoFile, ExistingOut}]
    /\ fs["/nodir/out"] = NoFile
    /\ builder \in [executable : ExecutableNames, arguments : ArgumentLists,
                    environment : Environments, cwd : {NoPath}, out : {NoPath}]
    /\ call = Idle
    /\ procs = << >>
    /\ handles = << >>
    /\ lastResult = NoResult
    /\ started = 0

Next ==
    \/ StartLinux("nothrow", NoError)
    \/ StartLinux("throw", NoError)
    \/ Fork
    \/ ParentReturn
    \/ \E k \in 1..Len(procs) : ChildSetup(k)
    \/ \E k \in 1..Len(procs) : ChildResolve(k)
    \/ \E k \in 1..Len(procs) : ChildExec(k)
    \/ \E k \in 1..Len(procs) : ChildExit(k)
    \/ \E k \in 1..Len(procs) : ProgWrite(k)
    \/ \E k \in 1..Len(procs) : ProgExit(k)
    \/ StartWindows("nothrow", NoError)
    \/ StartWindows("throw", NoError)
    \/ \E path \in OutputPaths \cup {NoPath} : redirectStandardOutputToFile(path)
    \/ \E path \in WorkingDirectories : setCurrentWorkingDirectory(path)
    \/ DefaultConstruct
    \/ \E i \in 1..Len(handles) : waitForExit(i)

Spec == Init /\ [][Next]_vars

\* The same program over every argument list, with fewer of the other
\* choices: a relative and a non-executable command, no environment, no file
\* before the first start.
ArgvInit ==
    /\ os \in {"linux", "windows"}
    /\ euid = 1000
    /\ fs = [path \in OutputPaths |-> NoFile]
    /\ builder \in [executable : {"tool", "/bin/data"}, arguments : AllArgumentLists,
                    environment : {NoEnv}, cwd : {NoPath}, out : {NoPath}]
    /\ call = Idle
    /\ procs = << >>
    /\ handles = << >>
    /\ lastResult = NoResult
    /\ started = 0

ArgvSpec == ArgvInit /\ [][Next]_vars

\* The caller's thread keeps running: once inside start it takes its next
\* step.  Nothing is assumed about the children or about the programs.
CallerSpec == Spec /\ WF_vars(Fork) /\ WF_vars(ParentReturn)

-----------------------------------------------------------------------------
(* Properties *)

Called == lastResult.kind # "none"
Valid(id) == id # InvalidId

\* Whether the command line's executable names no file at all.
Missing(path) == Resolve(CallerCwd, path) \notin Directories \cup Programs \cup PlainFiles

\* C1: when the executable path does not exist, start(error) gives an invalid
\* handle and a set Error, and the caller never holds a handle to a process.
C1_MissingExecutable ==
    Missing(builder.executable) =>
        /\ Called => /\ ~Valid(lastResult.inner.id)
                     /\ lastResult.inner.error # NoError
                     /\ lastResult.spawned = 0
        /\ \A i \in 1..Len(handles) : ~Valid(handles[i].id)
        /\ procs = << >>

C1_Witness ==
    /\ Called /\ Missing(builder.executable)
    /\ lastResult.kind = "nothrow" /\ lastResult.ret = <<InvalidId>>
    /\ lastResult.inner.error = Generic

\* C2: a call of start(error) entered with error unset ends in exactly one of
\* two ways: a valid handle to the process it spawned and error unset, or an
\* invalid handle and error set.
C2_HandleXorError ==
    (Called /\ lastResult.errIn = NoError) =>
        LET r == lastResult
        IN  \/ /\ Valid(r.inner.id) /\ r.inner.error = NoError
               /\ r.spawned = 1 /\ r.proc \in 1..Len(procs)
               /\ procs[r.proc].pid = r.inner.id
            \/ /\ ~Valid(r.inner.id) /\ r.inner.error # NoError

C2_Witness ==
    /\ Called /\ ~Missing(builder.executable)
    /\ ~Valid(lastResult.inner.id) /\ lastResult.inner.error = Generic
    /\ \E i \in 1..Len(handles) : Valid(handles[i].id) /\ ~handles[i].failed

\* C3: for a process a start spawned without error and that terminated with
\* exit code N, waitForExit() and then exitCode() on its handle gives N.
C3_ExitCode ==
    \A i \in 1..Len(handles) :
        LET h == handles[i]
        IN  (h.proc # 0 /\ ~h.failed /\ h.waited /\ Terminated(h.proc)) =>
                exitCode(h) = [failed |-> FALSE, value |-> procs[h.proc].status[1]]

C3_Witness ==
    \E i \in 1..Len(handles) :
        /\ handles[i].proc # 0 /\ handles[i].waited
        /\ procs[handles[i].proc].image = "/tool"
        /\ exitCode(handles[i]) = [failed |-> FALSE, value |-> 7]

\* C4: once a child started with a redirection has exited, the file holds
\* exactly what the child wrote to its standard output, whether or not the
\* file existed before (runs that overlap on the same file are left out, as
\* are paths whose directory does not exist).
C4_RedirectedOutput ==
    \A k \in 1..Len(procs) :
        LET p == procs[k]
        IN  (/\ p.b.out # NoPath /\ Parent(p.b.out) \in Directories
             /\ Terminated(k) /\ p.solo
             /\ \A j \in (k + 1)..Len(procs) : procs[j].b.out # p.b.out) =>
                /\ fs[p.b.out].exists
                /\ fs[p.b.out].content = p.written

\* A process whose exec call failed.
ExecFailed(k) == procs[k].image = NoImage /\ procs[k].pc \in {"failed", "zombie", "reaped"}

\* C5: a forked child whose exec call fails does nothing but exit with a
\* non-zero status; its start gave the caller a valid handle and no error,
\* and the caller sees the failure as a non-zero exit code after waitForExit().
C5_ExecFailure ==
    /\ \A k \in 1..Len(procs) :
           ExecFailed(k) => /\ procs[k].written = << >>
                            /\ Terminated(k) => procs[k].status[1] # 0
    /\ \A i \in 1..Len(handles) :
           LET h == handles[i]
           IN  (h.proc # 0 /\ ExecFailed(h.proc)) =>
                   /\ Valid(h.id) /\ ~h.failed
                   /\ h.waited => ~exitCode(h).failed /\ exitCode(h).value # 0

C5_Witness ==
    \E i \in 1..Len(handles) :
        /\ handles[i].proc # 0 /\ ExecFailed(handles[i].proc)
        /\ handles[i].waited /\ exitCode(handles[i]).value = 255

\* C6: a handle that stands for no process (default-constructed, or returned
\* by a start that spawned nothing) never records an exit status, so a wait
\* on it collects no process and exitCode() on it fails.
C6_NoProcessHandle ==
    \A i \in 1..Len(handles) :
        handles[i].proc = 0 =>
            /\ ~Valid(handles[i].id)
            /\ handles[i].code = NoCode
            /\ exitCode(handles[i]).failed

C6_Witness ==
    /\ \E i \in 1..Len(handles) :
           handles[i].proc = 0 /\ handles[i].waited /\ exitCode(handles[i]).failed
    /\ \E k \in 1..Len(procs) : procs[k].pc = "zombie"

\* C7: once the caller is inside start it returns, whatever the child does,
\* even if the child never takes a step.
C7_StartReturns == (call.pc # "idle") ~> (call.pc = "idle")

C7_Witness ==
    /\ call.pc = "idle" /\ lastResult.proc # 0 /\ Valid(lastResult.inner.id)
    /\ procs[lastResult.proc].pc = "setup"

\* C8: when start returns, the caller holds no handle of the redirection file
\* that start opened, and start has closed no handle that it had not opened.
C8_RedirectionHandle ==
    Called => lastResult.leaked = {} /\ ~lastResult.badClose

\* C9: start() throws exactly when its call of start(error) set the error,
\* returns that call's handle otherwise, and spawns at most once.
C9_ThrowingForm ==
    (Called /\ lastResult.kind = "throw") =>
        LET r == lastResult
        IN  /\ r.raised <=> r.inner.error # NoError
            /\ r.raised => r.ret = << >>
            /\ ~r.raised => r.ret = <<r.inner.id>>
            /\ r.spawned = IF Valid(r.inner.id) THEN 1 ELSE 0

C9_Witness ==
    /\ Called /\ lastResult.kind = "throw" /\ lastResult.raised
    /\ handles = << >>

\* C10: the program runs with the configured environment, and only it, when
\* the builder has one, and with the caller's environment otherwise.
C10_Environment ==
    \A k \in 1..Len(procs) :
        LET p == procs[k]
        IN  p.image # NoImage =>
                p.env = IF p.b.environment # NoEnv
                        THEN {e[1] \o "=" \o e[2] : e \in p.b.environment[1]}
                        ELSE CallerEnviron

C10_Witness ==
    \E k \in 1..Len(procs) :
        /\ procs[k].image # NoImage /\ os = "linux"
        /\ procs[k].b.environment # NoEnv /\ procs[k].env = {"K=v"}

\* C11: a child whose configured working directory does not exist fails on
\* its side: it never runs the target program (in the caller's directory or
\* anywhere else) and never terminates with status 0.
C11_WorkingDirectoryFailure ==
    \A k \in 1..Len(procs) :
        LET p == procs[k]
        IN  (os = "linux" /\ p.b.cwd # NoPath /\ p.b.cwd \notin Directories) =>
                /\ p.image = NoImage
                /\ p.status # <<0>>

\* What a handle stands for, in one state: at most the process its start
\* spawned, under that process's identifier; a recorded code is that
\* process's exit status, and a wait on it can take no other process.
OneProcess(h) ==
    /\ h.collected \subseteq {h.proc} \ {0}
    /\ h.proc # 0 => h.proc \in 1..Len(procs) /\ procs[h.proc].pid = h.id
    /\ h.code = NoCode => h.collected = {} /\ WaitTarget(h) \subseteq {h.proc}
    /\ h.code # NoCode =>
          /\ h.collected = {h.proc}
          /\ h.code = procs[h.proc].status
          /\ exitCode(h) = [failed |-> FALSE, value |-> procs[h.proc].status[1]]

\* A handle with a recorded exit code stays as it is.
CodeKept ==
    \A i \in 1..Len(handles) :
        handles[i].code # NoCode =>
            /\ handles'[i] = handles[i]
            /\ exitCode(handles'[i]) = exitCode(handles[i])

\* C12: a handle never stands for two different processes, and once
\* waitForExit() has recorded an exit code on it, every later exitCode()
\* gives that code: the handle does not go back to running and the code does
\* not change.
C12_OneProcessOneCode ==
    /\ [](\A i \in 1..Len(handles) : OneProcess(handles[i]))
    /\ [][CodeKept]_vars

\* A handle holds its process's code while a later process runs under the
\* same identifier and has terminated.
C12_Witness ==
    \E i \in 1..Len(handles) : \E k \in 1..Len(procs) :
        /\ handles[i].code # NoCode /\ k # handles[i].proc
        /\ procs[k].pid = handles[i].id /\ procs[k].pc = "zombie"

\* C13 as stated: the executable is resolved after the change of directory,
\* so the image a child runs is its command line's executable resolved
\* against the directory the child is in when it calls exec.
C13_ResolvedAfterChdir ==
    \A k \in 1..Len(procs) :
        LET p == procs[k]
        IN  (os = "linux" /\ p.image # NoImage) =>
                p.image = Resolve(p.cwd, p.b.executable)

\* C13: in the forked child the steps come in this order: argv and the
\* redirection of standard output, then the resolution of the executable to
\* a canonical path, then the change of directory, then exec; so a relative
\* executable path is resolved against the caller's directory, the one in
\* effect before the change of directory.
C13_ChildOrder ==
    \A k \in 1..Len(procs) :
        LET p == procs[k]
        IN  os = "linux" =>
              /\ p.pc = "setup" => /\ p.stdout = "inherit" /\ p.exe = NoPath
                                   /\ p.cwd = CallerCwd /\ p.image = NoImage
              /\ p.pc = "resolve" => /\ p.stdout \in {p.b.out, "inherit"}
                                     /\ p.exe = NoPath /\ p.cwd = CallerCwd
                                     /\ p.image = NoImage
              /\ p.pc \notin {"setup", "resolve"} =>
                    /\ p.exe = Realpath(CallerCwd, p.b.executable)
                    /\ p.cwd = IF p.b.cwd # NoPath THEN Chdir(CallerCwd, p.b.cwd)
                               ELSE CallerCwd
              /\ p.image # NoImage => p.image = Resolve(CallerCwd, p.b.executable)

\* A relative executable, run from another directory than the one it was
\* resolved in.
C13_Witness ==
    \E k \in 1..Len(procs) :
        /\ os = "linux" /\ procs[k].b.executable \in RelativePaths
        /\ procs[k].b.cwd = "/w" /\ procs[k].cwd = "/w"
        /\ procs[k].image = "/tool"

\* The next step of a forked child that has neither replaced its image nor
\* exited.
ChildStep(k) == ChildSetup(k) \/ ChildResolve(k) \/ ChildExec(k) \/ ChildExit(k)

\* C14: between fork and exec or exit the child takes no lock a thread of the
\* caller could hold at the time of the fork, so whatever those threads were
\* doing the child can always take its next step, up to the exec or the
\* exit, and a wait on it is not held up by the child's setup.
C14_ChildNeverBlocked ==
    \A k \in 1..Len(procs) :
        procs[k].pc \in {"setup", "resolve", "exec", "failed"} => ENABLED ChildStep(k)

\* C15: of the two processes fork() leaves inside start(error), only the
\* caller returns from it.  The child is at one of its setup steps, or runs
\* the image exec gave it, or has ended; when it ended without an image it
\* ended by exit(-1), whichever of the open, chdir, realpath and exec calls
\* failed.
C15_ChildNeverReturns ==
    \A k \in 1..Len(procs) :
        LET p == procs[k]
        IN  os = "linux" =>
              /\ p.pc \in {"setup", "resolve", "exec", "failed", "running", "zombie", "reaped"}
              /\ p.pc = "running" => p.image # NoImage
              /\ p.pc \in {"setup", "resolve", "exec", "failed"} =>
                    p.image = NoImage /\ p.status = NoCode
              /\ (Terminated(k) /\ p.image = NoImage) =>
                    p.status = <<ExitStatus(ChildExitCode)>>

\* A child whose open, chdir and exec calls all failed, and that has ended.
C15_Witness ==
    \E k \in 1..Len(procs) :
        /\ os = "linux" /\ Terminated(k)
        /\ procs[k].b.out = "/nodir/out" /\ procs[k].stdout = "inherit"
        /\ procs[k].b.cwd = "/nodir" /\ procs[k].cwd = CallerCwd
        /\ procs[k].exe = "/bin/data" /\ procs[k].image = NoImage

\* A step that enters start(error) on Linux with an executable that does not
\* exist fails the call at once and changes neither the processes nor the
\* files.
FailsWithoutEffect ==
    (os = "linux" /\ started' = started + 1 /\ ~Exists(CallerCwd, builder.executable)) =>
        /\ procs' = procs /\ fs' = fs
        /\ call' = Idle
        /\ lastResult'.inner = [id |-> InvalidId, error |-> Generic]
        /\ lastResult'.spawned = 0

\* C16: on Linux the existence check comes before the fork and before the
\* redirection file is opened: a start(error) on a missing executable fails
\* with no side effect, so there is never a child and every file is as it was
\* before the first start, neither created nor truncated.
C16_CheckBeforeFork ==
    /\ []((os = "linux" /\ Missing(builder.executable)) =>
            /\ procs = << >>
            /\ \A path \in OutputPaths : fs[path] \in {NoFile, ExistingOut})
    /\ [][FailsWithoutEffect]_vars

\* Failed starts on a missing executable, with a redirection to a file that
\* existed before and still has its content.
C16_Witness ==
    /\ os = "linux" /\ Called /\ Missing(builder.executable)
    /\ lastResult.inner.error = Generic /\ started = MaxStarts
    /\ builder.out = "/out" /\ fs["/out"] = ExistingOut

\* Whether the step belongs to a call of start or start(error): it enters
\* the call, or the caller is inside it.
StartStep == started' # started \/ call.pc # "idle"

\* A step of start leaves the builder's command line, environment, working
\* directory and redirection path as they are.
BuilderKept == StartStep => builder' = builder

\* C17: start only reads the builder.  Whether the spawn succeeds or fails,
\* the builder is afterwards as it was, so it can be started again: every
\* process was started from the configuration the builder still has, and the
\* handles of successful starts stand for processes distinct from each other.
C17_BuilderReadOnly ==
    /\ [][BuilderKept]_vars
    /\ [](/\ \A k \in 1..Len(procs) : procs[k].b = builder
          /\ \A i, j \in 1..Len(handles) :
                (i # j /\ handles[i].proc # 0) => handles[i].proc # handles[j].proc
          /\ (Called /\ Valid(lastResult.inner.id)) =>
                lastResult.spawned = 1)

\* Two successful starts of one configured builder.
C17_Witness ==
    /\ started = MaxStarts /\ call.pc = "idle"
    /\ builder.out = "/out" /\ builder.cwd = "/w"
    /\ \E i, j \in 1..Len(handles) :
          /\ i # j /\ Valid(handles[i].id) /\ Valid(handles[j].id)
          /\ handles[i].proc # handles[j].proc
          /\ procs[handles[i].proc].b = procs[handles[j].proc].b

\* C18: for a command line with executable E and arguments a_1..a_n (n >= 0)
\* the argument vector of the child has exactly n + 2 slots: slot 0 is E as
\* the command line has it (not the canonical path), slots 1..n are a_1..a_n
\* in order, slot n + 1 is the null terminator, and no other slot is written.
C18_ArgumentVector ==
    \A k \in 1..Len(procs) :
        LET p == procs[k]
            n == Len(p.b.arguments)
        IN  (os = "linux" /\ p.pc # "setup") =>
              /\ Len(p.argv.slots) = n + 2
              /\ p.argv.slots[1] = p.b.executable
              /\ \A j \in 1..n : p.argv.slots[j + 1] = p.b.arguments[j]
              /\ p.argv.slots[n + 2] = Null
              /\ p.argv.stray = {}

\* A child that runs /tool under the name "tool", with two arguments in the
\* order the command line has them.
C18_Witness ==
    \E k \in 1..Len(procs) :
        /\ os = "linux" /\ procs[k].image = "/tool"
        /\ procs[k].b.arguments = <<"-b", "-a">>
        /\ procs[k].argv.slots = <<"tool", "-b", "-a", Null>>

====
